---- MODULE Spec2Model ----
(***************************************************************************)
(* Lumina (Interior-Designer-AI): the workflow controller of src/App.tsx   *)
(* and the generation service adapter of src/services/geminiService.ts.    *)
(*                                                                         *)
(* A step of the model is one browser task: a user event with the handler  *)
(* code that runs synchronously in it, a FileReader load event, or the     *)
(* settling of one remote generateContent call together with every         *)
(* continuation (microtask) that settling makes runnable.  No user event   *)
(* can fall between a promise settling and its continuations.              *)
(*                                                                         *)
(* Spec is the workflow with a Visualize batch settling as a whole;        *)
(* FineSpec is the workflow with the calls of a batch settling one by one; *)
(* ServiceSpec is one adapter function called on its own.                  *)
(***************************************************************************)
EXTENDS Integers, Sequences, FiniteSets, TLC

VARIABLES
    originalImage,     \* App.tsx:7   useState<string | null>(null)
    cleanImage,        \* App.tsx:8   useState<string | null>(null)
    isCleanMode,       \* App.tsx:9   useState(false)
    loadingState,      \* App.tsx:10  useState<LoadingState>('idle')
    selectedCategory,  \* App.tsx:11  useState<DesignCategory>(LIGHTING)
    advice,            \* App.tsx:12  useState<DesignAdvice[]>([])
    visualizations,    \* App.tsx:13  useState<string[]>([])
    error,             \* App.tsx:14  useState<string | null>(null)
    apiKey,            \* geminiService.ts:6  process.env.API_KEY (TRUE: set)
    direct,            \* an adapter function called on its own, outside the App (ServiceSpec)
    readers,           \* the files a FileReader started by processFile is reading
    tasks,             \* handler invocations suspended at an await
    nextRun,           \* number of handler invocations that reached a remote call
    lastHandler        \* the App handler run by the last step: "onload", "handleCleanCheck",
                       \* "handleAnalysis", or "none" (history, read by the properties only)

appState == <<originalImage, cleanImage, isCleanMode, loadingState,
              selectedCategory, advice, visualizations, error>>
vars == <<originalImage, cleanImage, isCleanMode, loadingState, selectedCategory,
          advice, visualizations, error, apiKey, direct, readers, tasks, nextRun,
          lastHandler>>

(***************************************************************************)
(* Bounds of the model.                                                    *)
(***************************************************************************)
MaxRuns == 3        \* handler invocations that issue remote calls

\* The files the user picks or drops, each at most once.
Files == {"A", "B"}

(***************************************************************************)
(* Values.                                                                 *)
(***************************************************************************)
NULL == [kind |-> "null"]
Pending == [kind |-> "pending"]

\* No adapter function is called outside the App.
NoInvocation == [kind |-> "none"]

\* types.ts:1-7
LIGHTING == "Lighting"
COLOR_PALETTE == "Color Palette"
LAYOUT == "Layout & Flow"
TEXTURES == "Textures & Fabrics"
DECOR == "Decor & Styling"
DesignCategory == {LIGHTING, COLOR_PALETTE, LAYOUT, TEXTURES, DECOR}

\* The categories the user picks in a session: one with a table of its own in
\* generateDesignVisualizations and one served by the default table.
CategoriesPicked == {LIGHTING, DECOR}

\* types.ts:20
LoadingState == {"idle", "cleaning", "analyzing", "visualizing"}

\* App.tsx:23  event.target.result: the data URL of the file read
FileDataUrl(f) == [kind |-> "file", file |-> f]

\* geminiService.ts:57, 209  `data:image/png;base64,${part.inlineData.data}`
PngDataUrl(data) == [kind |-> "png", data |-> data]

CleanError == "Could not clean the room. Please try again."
AnalysisError == "Analysis failed. The AI might be busy, please try again."
NoError == "null"

(***************************************************************************)
(* The remote generation endpoint (ai.models.generateContent).  A call     *)
(* either fails or answers; what it answers is the environment's choice.   *)
(* Generated content is named by the request it answers, so that a stored  *)
(* result can be traced to the call that produced it.                      *)
(***************************************************************************)
\* One call of an adapter function: the handler invocation issuing it and its arguments.
Call(run, op, image, category, count) ==
    [run |-> run, op |-> op, image |-> image, category |-> category, count |-> count]

RemoteError == [kind |-> "error"]
TextPart == [inlineData |-> NULL]
ImagePart(data) == [inlineData |-> [data |-> data]]
Generated(request, k) == [for |-> request, k |-> k]

Response(parts) == [kind |-> "response", candidates |-> TRUE, parts |-> parts]

\* The ways an image call ends that the workflow can tell apart: the call fails, the
\* response holds text only, the response holds a text part and then an image part.
OutcomeShapes == {"error", "no image", "image"}

ImageOutcome(request, shape) ==
    CASE shape = "error" -> RemoteError
      [] shape = "no image" -> Response(<<TextPart>>)
      [] shape = "image" -> Response(<<TextPart, ImagePart(Generated(request, 2))>>)

ImageOutcomes(request) == { ImageOutcome(request, shape) : shape \in OutcomeShapes }

\* One DesignAdvice item of a response (types.ts:9-13); `fill` is the text of its three fields.
AdviceItem(request, n, fill) ==
    [for |-> request, n |-> n, title |-> fill, description |-> fill, principleSource |-> fill]

AdviceRequested == 4    \* geminiService.ts:90  "Provide 4 distinct, actionable design improvements."

AdviceArrays(request) ==
    { [i \in 1..n |-> AdviceItem(request, i, "text")] : n \in {0, AdviceRequested} }

\* response.text of the structured-output call
TextAbsent == [json |-> "absent", hasAdvice |-> FALSE, advice |-> <<>>]
TextEmpty == [json |-> "empty", hasAdvice |-> FALSE, advice |-> <<>>]
TextMalformed == [json |-> "malformed", hasAdvice |-> FALSE, advice |-> <<>>]
TextObject(hasAdvice, adv) == [json |-> "object", hasAdvice |-> hasAdvice, advice |-> adv]
\* the JSON text `null`: it parses, and reading a property of the value it parses to throws
TextNull == [json |-> "null", hasAdvice |-> FALSE, advice |-> <<>>]

TextOutcomes(request) ==
    {RemoteError}
    \cup { [kind |-> "response", text |-> t] :
             t \in {TextAbsent, TextEmpty, TextMalformed, TextObject(FALSE, <<>>)}
                   \cup { TextObject(TRUE, a) : a \in AdviceArrays(request) } }

(***************************************************************************)
(* The generation service adapter, src/services/geminiService.ts.          *)
(***************************************************************************)
Return(value) == [ok |-> TRUE, value |-> value]
Throw == [ok |-> FALSE, value |-> NULL]

\* getClient building a client without a key
GetClientThrows_Never(key) == FALSE

\* geminiService.ts:5-11  getClient throws when API_KEY is not set
GetClientThrows(key) == ~key

\* response.candidates?.[0]?.content?.parts || []
Parts(response) == IF response.candidates THEN response.parts ELSE <<>>

\* the loop over the parts returning the last part with inlineData
FirstInlineData_Last(parts) ==
    LET withData == { k \in 1..Len(parts) : parts[k].inlineData # NULL }
    IN  IF withData = {} THEN NULL
        ELSE parts[CHOOSE k \in withData : \A j \in withData : k >= j].inlineData

\* geminiService.ts:55-59 and 207-211: the first part with inlineData, or NULL
FirstInlineData(parts) ==
    LET withData == { k \in 1..Len(parts) : parts[k].inlineData # NULL }
    IN  IF withData = {} THEN NULL
        ELSE parts[CHOOSE k \in withData : \A j \in withData : k <= j].inlineData

\* geminiService.ts:36-64  cleanRoomImage once generateContent has settled with `outcome`
CleanRoomImage(outcome) ==
    IF outcome = RemoteError THEN Throw
    ELSE LET inline == FirstInlineData(Parts(outcome))
         IN  IF inline = NULL THEN Throw ELSE Return(PngDataUrl(inline.data))

\* geminiService.ts:131  JSON.parse(response.text || "{}")
JsonParse(text) ==
    IF text.json \in {"absent", "empty"} THEN Return(TextObject(FALSE, <<>>))
    ELSE IF text.json = "malformed" THEN Throw
    ELSE Return(text)

\* geminiService.ts:100-136  analyzeRoomDesign once generateContent has settled with `outcome`
AnalyzeRoomDesign(outcome) ==
    IF outcome = RemoteError THEN Throw
    ELSE LET json == JsonParse(outcome.text)
         IN  IF ~json.ok THEN Throw
             ELSE IF json.value.json = "null" THEN Throw
             ELSE IF json.value.hasAdvice THEN Return(json.value.advice)
             ELSE Return(<<>>)

\* geminiService.ts:149-183  the prompt variations of a category
Variations(category) ==
    CASE category = LIGHTING ->
           <<"Layered Lighting", "Task Lighting", "Accent Lighting", "Atmospheric/Mood Lighting">>
      [] category = LAYOUT ->
           <<"The Triangle of Flow", "Social Convergence", "Zoning", "Symmetry and Balance">>
      [] category = COLOR_PALETTE ->
           <<"Monochromatic harmony", "Analogous colors", "Complementary contrast", "The 60-30-10 Rule">>
      [] OTHER ->
           <<"Minimalist and Modern", "Organic Modern (Biophilic)", "Transitional", "Eclectic">>

\* Array.prototype.slice(0, end)
Slice0(s, end) ==
    LET e == IF end < 0 THEN (IF Len(s) + end < 0 THEN 0 ELSE Len(s) + end)
             ELSE IF end > Len(s) THEN Len(s) ELSE end
    IN  SubSeq(s, 1, e)

\* geminiService.ts:186
SelectedVariations(category, count) == Slice0(Variations(category), count)

\* geminiService.ts:196-216  one variation's promise once its generateContent has settled
VariationResult(outcome) ==
    IF outcome = RemoteError THEN NULL
    ELSE LET inline == FirstInlineData(Parts(outcome))
         IN  IF inline = NULL THEN NULL ELSE PngDataUrl(inline.data)

\* generateDesignVisualizations returning the results unfiltered
FilterNonNull_KeepsNull(results) == results

\* geminiService.ts:220  results.filter(url => url !== null)
FilterNonNull(results) == SelectSeq(results, LAMBDA url : url # NULL)

\* geminiService.ts:188-217  the promises created by selectedVariations.map
VariationPromises(category, count) ==
    [i \in 1..Len(SelectedVariations(category, count)) |-> Pending]

\* The request one variation sends: the adapter call and the prompt variation.
VariationRequest(call, i) ==
    [call |-> call, variation |-> SelectedVariations(call.category, call.count)[i]]

(***************************************************************************)
(* The workflow controller, src/App.tsx.                                   *)
(***************************************************************************)
\* A handler invocation suspended at `await`: the values its closure captured at the
\* event, the adapter calls it has issued so far, and, inside
\* generateDesignVisualizations, the promises Promise.all waits for.
Task(run, handler, image, category, await, calls, promises) ==
    [run |-> run, handler |-> handler, image |-> image, category |-> category,
     await |-> await, calls |-> calls, promises |-> promises]

\* App.tsx:124
ActiveImage == IF isCleanMode /\ cleanImage # NULL THEN cleanImage ELSE originalImage

\* handleAnalysis picking the cleaned image whenever one is cached, clean-mode on or off
ImageToAnalyze_IgnoresCleanMode == IF cleanImage # NULL THEN cleanImage ELSE originalImage

\* App.tsx:98
ImageToAnalyze == IF isCleanMode /\ cleanImage # NULL THEN cleanImage ELSE originalImage

\* App.tsx:141  the landing page (with the file inputs and the drop zone) is rendered
Landing == originalImage = NULL

\* App.tsx:141, 230  the dashboard is rendered and the checkbox is not disabled
CleanCheckboxEnabled == originalImage # NULL /\ loadingState # "cleaning"

\* App.tsx:141, 305
GenerateEnabled == originalImage # NULL /\ loadingState = "idle"

\* App.tsx:141, 290
CategoryButtonsShown == originalImage # NULL

Init ==
    /\ originalImage = NULL
    /\ cleanImage = NULL
    /\ isCleanMode = FALSE
    /\ loadingState = "idle"
    /\ selectedCategory = LIGHTING
    /\ advice = <<>>
    /\ visualizations = <<>>
    /\ error = NoError
    /\ apiKey \in BOOLEAN
    /\ direct = NoInvocation
    /\ readers = {}
    /\ tasks = {}
    /\ nextRun = 0
    /\ lastHandler = "none"

\* App.tsx:33-37, 53-63, 20-21, 30  a file is picked or dropped on the landing page:
\* processFile starts a FileReader on it.  The file inputs and the drop zone are
\* rendered on the landing page only (App.tsx:141-204); on the dashboard the New Image
\* button (App.tsx:246) clicks fileInputRef, which is not mounted there.  A load that
\* arrives on the dashboard is that of a file picked before the first one loaded.
PickFile(f) ==
    /\ Landing
    /\ f \notin readers
    /\ readers' = readers \cup {f}
    /\ lastHandler' = "none"
    /\ UNCHANGED <<appState, apiKey, direct, tasks, nextRun>>

\* reader.onload without setIsCleanMode(false)
ReaderOnload_KeepsCleanMode(f) ==
    /\ f \in readers
    /\ readers' = readers \ {f}
    /\ originalImage' = FileDataUrl(f)
    /\ cleanImage' = NULL
    /\ advice' = <<>>
    /\ visualizations' = <<>>
    /\ error' = NoError
    /\ lastHandler' = "onload"
    /\ UNCHANGED <<isCleanMode, loadingState, selectedCategory, apiKey, direct, tasks,
                   nextRun>>

\* reader.onload without setCleanImage(null)
ReaderOnload_KeepsCleanImage(f) ==
    /\ f \in readers
    /\ readers' = readers \ {f}
    /\ originalImage' = FileDataUrl(f)
    /\ isCleanMode' = FALSE
    /\ advice' = <<>>
    /\ visualizations' = <<>>
    /\ error' = NoError
    /\ lastHandler' = "onload"
    /\ UNCHANGED <<cleanImage, loadingState, selectedCategory, apiKey, direct, tasks, nextRun>>

\* App.tsx:22-29  reader.onload
ReaderOnload(f) ==
    /\ f \in readers
    /\ readers' = readers \ {f}
    /\ originalImage' = FileDataUrl(f)
    /\ cleanImage' = NULL
    /\ isCleanMode' = FALSE
    /\ advice' = <<>>
    /\ visualizations' = <<>>
    /\ error' = NoError
    /\ lastHandler' = "onload"
    /\ UNCHANGED <<loadingState, selectedCategory, apiKey, direct, tasks, nextRun>>

\* a category click that also changes the category of the runs in flight
SelectCategory_RetargetsRuns(cat) ==
    /\ CategoryButtonsShown
    /\ selectedCategory' = cat
    /\ tasks' = { [t EXCEPT !.category = IF t.handler = "handleAnalysis" THEN cat ELSE @] :
                    t \in tasks }
    /\ lastHandler' = "none"
    /\ UNCHANGED <<originalImage, cleanImage, isCleanMode, loadingState, advice,
                   visualizations, error, apiKey, direct, readers, nextRun>>

\* App.tsx:290  onClick={() => setSelectedCategory(cat)}
SelectCategory(cat) ==
    /\ CategoryButtonsShown
    /\ selectedCategory' = cat
    /\ lastHandler' = "none"
    /\ UNCHANGED <<originalImage, cleanImage, isCleanMode, loadingState, advice,
                   visualizations, error, apiKey, direct, readers, tasks, nextRun>>

\* handleCleanCheck caching the cleaned image without setIsCleanMode(true)
CleanCheckSettled_ModeNotSet(result) ==
    /\ IF result.ok
         THEN cleanImage' = result.value /\ UNCHANGED <<isCleanMode, error>>
         ELSE error' = CleanError /\ isCleanMode' = FALSE /\ UNCHANGED cleanImage
    /\ loadingState' = "idle"
    /\ UNCHANGED <<originalImage, selectedCategory, advice, visualizations>>

\* App.tsx:82-91  handleCleanCheck after `await cleanRoomImage(originalImage)` settled
CleanCheckSettled(result) ==
    /\ IF result.ok
         THEN cleanImage' = result.value /\ isCleanMode' = TRUE /\ UNCHANGED error
         ELSE error' = CleanError /\ isCleanMode' = FALSE /\ UNCHANGED cleanImage
    /\ loadingState' = "idle"
    /\ UNCHANGED <<originalImage, selectedCategory, advice, visualizations>>

\* App.tsx:65-93  handleCleanCheck, up to its await
HandleCleanCheck(checked) ==
    /\ IF originalImage = NULL
         THEN UNCHANGED <<appState, tasks, nextRun>>
         ELSE IF ~checked
         THEN /\ isCleanMode' = FALSE
              /\ UNCHANGED <<originalImage, cleanImage, loadingState, selectedCategory,
                             advice, visualizations, error, tasks, nextRun>>
         ELSE IF cleanImage # NULL
         THEN /\ isCleanMode' = TRUE
              /\ UNCHANGED <<originalImage, cleanImage, loadingState, selectedCategory,
                             advice, visualizations, error, tasks, nextRun>>
         ELSE IF GetClientThrows(apiKey)
         THEN /\ CleanCheckSettled(Throw)
              /\ UNCHANGED <<tasks, nextRun>>
         ELSE /\ nextRun < MaxRuns
              /\ loadingState' = "cleaning"
              /\ error' = NoError
              /\ nextRun' = nextRun + 1
              /\ tasks' = tasks \cup
                   {Task(nextRun + 1, "handleCleanCheck", originalImage, "",
                         "cleanRoomImage",
                         <<Call(nextRun + 1, "cleanRoomImage", originalImage, "", 0)>>, <<>>)}
              /\ UNCHANGED <<originalImage, cleanImage, isCleanMode, selectedCategory,
                             advice, visualizations>>
    /\ lastHandler' = "handleCleanCheck"
    /\ UNCHANGED <<apiKey, direct, readers>>

\* App.tsx:226-231  the user clicks the checkbox: a controlled input, so the event's
\* `checked` is the negation of the rendered isCleanMode
ToggleCleanCheckbox ==
    /\ CleanCheckboxEnabled
    /\ HandleCleanCheck(~isCleanMode)

\* App.tsx:68  handleCleanCheck invoked while no image is stored (the dashboard, and with
\* it the checkbox, is not rendered then: only the handler's own guard applies)
CleanCheckWithoutImage ==
    /\ originalImage = NULL
    /\ \E checked \in BOOLEAN : HandleCleanCheck(checked)

VisualizationCount == 4    \* App.tsx:112

\* handleAnalysis without `if (!originalImage) return`
HandleAnalysis_NoImageGuard ==
    /\ advice' = <<>>
    /\ visualizations' = <<>>
    /\ IF GetClientThrows(apiKey)
         THEN /\ error' = AnalysisError
              /\ loadingState' = "idle"
              /\ UNCHANGED <<tasks, nextRun>>
         ELSE /\ nextRun < MaxRuns
              /\ loadingState' = "analyzing"
              /\ error' = NoError
              /\ nextRun' = nextRun + 1
              /\ tasks' = tasks \cup
                   {Task(nextRun + 1, "handleAnalysis", ImageToAnalyze,
                         selectedCategory, "analyzeRoomDesign",
                         <<Call(nextRun + 1, "analyzeRoomDesign", ImageToAnalyze,
                                selectedCategory, 0)>>, <<>>)}
    /\ UNCHANGED <<originalImage, cleanImage, isCleanMode, selectedCategory>>
    /\ lastHandler' = "handleAnalysis"
    /\ UNCHANGED <<apiKey, direct, readers>>

\* App.tsx:95-120  handleAnalysis, up to its first await
HandleAnalysis ==
    /\ IF originalImage = NULL
         THEN UNCHANGED <<appState, tasks, nextRun>>
         ELSE /\ advice' = <<>>
              /\ visualizations' = <<>>
              /\ IF GetClientThrows(apiKey)
                   THEN /\ error' = AnalysisError
                        /\ loadingState' = "idle"
                        /\ UNCHANGED <<tasks, nextRun>>
                   ELSE /\ nextRun < MaxRuns
                        /\ loadingState' = "analyzing"
                        /\ error' = NoError
                        /\ nextRun' = nextRun + 1
                        /\ tasks' = tasks \cup
                             {Task(nextRun + 1, "handleAnalysis", ImageToAnalyze,
                                   selectedCategory, "analyzeRoomDesign",
                                   <<Call(nextRun + 1, "analyzeRoomDesign", ImageToAnalyze,
                                          selectedCategory, 0)>>, <<>>)}
              /\ UNCHANGED <<originalImage, cleanImage, isCleanMode, selectedCategory>>
    /\ lastHandler' = "handleAnalysis"
    /\ UNCHANGED <<apiKey, direct, readers>>

\* App.tsx:303-305  the user clicks Generate Ideas
ClickGenerate ==
    /\ GenerateEnabled
    /\ HandleAnalysis

\* App.tsx:96  handleAnalysis invoked while no image is stored (the Generate button is not
\* rendered then: only the handler's own guard applies)
AnalysisWithoutImage ==
    /\ originalImage = NULL
    /\ HandleAnalysis

\* handleCleanCheck issuing its Declutter call once more when the first one fails
CleanRoomImageSettles_Retries(t, outcome) ==
    /\ t \in tasks
    /\ t.await = "cleanRoomImage"
    /\ IF CleanRoomImage(outcome).ok \/ Len(t.calls) > 1
         THEN /\ CleanCheckSettled(CleanRoomImage(outcome))
              /\ tasks' = tasks \ {t}
         ELSE /\ tasks' = (tasks \ {t}) \cup {[t EXCEPT !.calls = Append(@, t.calls[1])]}
              /\ UNCHANGED appState
    /\ lastHandler' = "none"
    /\ UNCHANGED <<apiKey, direct, readers, nextRun>>

\* App.tsx:82-91 with geminiService.ts:36-64  the declutter call of task t settles
CleanRoomImageSettles(t, outcome) ==
    /\ t \in tasks
    /\ t.await = "cleanRoomImage"
    /\ CleanCheckSettled(CleanRoomImage(outcome))
    /\ tasks' = tasks \ {t}
    /\ lastHandler' = "none"
    /\ UNCHANGED <<apiKey, direct, readers, nextRun>>

\* Promise.all resolving as soon as one promise has settled
AllSettled_Any(promises) == \E i \in DOMAIN promises : promises[i] # Pending

AllSettled(promises) == \A i \in DOMAIN promises : promises[i] # Pending

\* App.tsx:113, 117-119  handleAnalysis after `await generateDesignVisualizations` resolved
VisualizationsSettled(t, promises) ==
    /\ visualizations' = FilterNonNull(promises)
    /\ loadingState' = "idle"
    /\ tasks' = tasks \ {t}

\* App.tsx:107-112, 115-119 with geminiService.ts:100-136, 145-217  the analyze call of
\* task t settles; on success the handler goes on into generateDesignVisualizations
AnalyzeRoomDesignSettles(t, outcome) ==
    /\ t \in tasks
    /\ t.await = "analyzeRoomDesign"
    /\ LET result == AnalyzeRoomDesign(outcome)
           call == Call(t.run, "generateDesignVisualizations", t.image, t.category,
                        VisualizationCount)
           promises == VariationPromises(call.category, call.count)
       IN  IF ~result.ok
             THEN /\ error' = AnalysisError
                  /\ loadingState' = "idle"
                  /\ tasks' = tasks \ {t}
                  /\ UNCHANGED <<advice, visualizations>>
             ELSE /\ advice' = result.value
                  /\ IF GetClientThrows(apiKey)
                       THEN /\ error' = AnalysisError
                            /\ loadingState' = "idle"
                            /\ tasks' = tasks \ {t}
                            /\ UNCHANGED visualizations
                       ELSE IF AllSettled(promises)
                       THEN /\ VisualizationsSettled(t, promises)
                            /\ UNCHANGED error
                       ELSE /\ loadingState' = "visualizing"
                            /\ tasks' = (tasks \ {t}) \cup
                                 {[t EXCEPT !.await = "generateDesignVisualizations",
                                            !.calls = Append(@, call),
                                            !.promises = promises]}
                            /\ UNCHANGED <<visualizations, error>>
    /\ lastHandler' = "none"
    /\ UNCHANGED <<originalImage, cleanImage, isCleanMode, selectedCategory, apiKey, direct,
                   readers, nextRun>>

\* geminiService.ts:188-220 with App.tsx:113, 117-119  every generateContent call of the
\* batch of task t has settled, variation i with outcomes[i]: Promise.all resolves and
\* handleAnalysis runs to its end.  (The settling of one call while another of the
\* batch is pending changes nothing but that call's promise: VariationSettles below.)
BatchSettles(t, outcomes) ==
    /\ t \in tasks
    /\ t.await = "generateDesignVisualizations"
    /\ DOMAIN outcomes = DOMAIN t.promises
    /\ VisualizationsSettled(t, [i \in DOMAIN outcomes |-> VariationResult(outcomes[i])])
    /\ lastHandler' = "none"
    /\ UNCHANGED <<originalImage, cleanImage, isCleanMode, selectedCategory, advice,
                   error, apiKey, direct, readers, nextRun>>

\* The outcomes of a batch of n calls that the workflow is run with: every call
\* answers an image, every call fails, the second call alone fails, the odd calls
\* answer no image.
BatchShapes(n) ==
    { [i \in 1..n |-> "image"],
      [i \in 1..n |-> "error"],
      [i \in 1..n |-> IF i = 2 THEN "error" ELSE "image"],
      [i \in 1..n |-> IF i % 2 = 1 THEN "no image" ELSE "image"] }

BatchOutcomes(call) ==
    { [i \in DOMAIN shapes |-> ImageOutcome(VariationRequest(call, i), shapes[i])] :
        shapes \in BatchShapes(Len(SelectedVariations(call.category, call.count))) }

\* A failed variation call rejecting Promise.all, so that handleAnalysis goes to its catch
VariationSettles_FailureInterrupts(t, i, outcome) ==
    /\ t \in tasks
    /\ t.await = "generateDesignVisualizations"
    /\ i \in DOMAIN t.promises
    /\ t.promises[i] = Pending
    /\ LET promises == [t.promises EXCEPT ![i] = VariationResult(outcome)]
       IN  IF outcome = RemoteError
             THEN /\ error' = AnalysisError
                  /\ loadingState' = "idle"
                  /\ tasks' = tasks \ {t}
                  /\ UNCHANGED visualizations
             ELSE /\ IF AllSettled(promises)
                       THEN VisualizationsSettled(t, promises)
                       ELSE /\ tasks' = (tasks \ {t}) \cup {[t EXCEPT !.promises = promises]}
                            /\ UNCHANGED <<visualizations, loadingState>>
                  /\ UNCHANGED error
    /\ lastHandler' = "none"
    /\ UNCHANGED <<originalImage, cleanImage, isCleanMode, selectedCategory, advice,
                   apiKey, direct, readers, nextRun>>

\* geminiService.ts:196-220 with App.tsx:113, 117-119  the generateContent call of
\* variation i of task t settles; when it is the last one, Promise.all resolves and
\* handleAnalysis runs to its end
VariationSettles(t, i, outcome) ==
    /\ t \in tasks
    /\ t.await = "generateDesignVisualizations"
    /\ i \in DOMAIN t.promises
    /\ t.promises[i] = Pending
    /\ LET promises == [t.promises EXCEPT ![i] = VariationResult(outcome)]
       IN  IF AllSettled(promises)
             THEN VisualizationsSettled(t, promises)
             ELSE /\ tasks' = (tasks \ {t}) \cup {[t EXCEPT !.promises = promises]}
                  /\ UNCHANGED <<visualizations, loadingState>>
    /\ lastHandler' = "none"
    /\ UNCHANGED <<originalImage, cleanImage, isCleanMode, selectedCategory, advice,
                   error, apiKey, direct, readers, nextRun>>

Next ==
    \/ \E f \in Files : PickFile(f)
    \/ \E f \in Files : ReaderOnload(f)
    \/ \E cat \in CategoriesPicked : SelectCategory(cat)
    \/ ToggleCleanCheckbox
    \/ CleanCheckWithoutImage
    \/ ClickGenerate
    \/ AnalysisWithoutImage
    \/ \E t \in tasks : \E outcome \in ImageOutcomes(t.calls[1]) :
          CleanRoomImageSettles(t, outcome)
    \/ \E t \in tasks : \E outcome \in TextOutcomes(t.calls[1]) :
          AnalyzeRoomDesignSettles(t, outcome)
    \/ \E t \in tasks : \E outcomes \in BatchOutcomes(t.calls[Len(t.calls)]) :
          BatchSettles(t, outcomes)

Spec == Init /\ [][Next]_vars

(***************************************************************************)
(* The workflow with the calls of a Visualize batch settling one by one,   *)
(* in any order and each in any way, for the first MaxFineRuns handler     *)
(* invocations that reach a remote call.                                   *)
(***************************************************************************)
MaxFineRuns == 1

FineNext ==
    \/ \E f \in Files : PickFile(f)
    \/ \E f \in Files : ReaderOnload(f)
    \/ \E cat \in CategoriesPicked : SelectCategory(cat)
    \/ ToggleCleanCheckbox /\ nextRun' <= MaxFineRuns
    \/ CleanCheckWithoutImage
    \/ ClickGenerate /\ nextRun' <= MaxFineRuns
    \/ AnalysisWithoutImage
    \/ \E t \in tasks : \E outcome \in ImageOutcomes(t.calls[1]) :
          CleanRoomImageSettles(t, outcome)
    \/ \E t \in tasks : \E outcome \in TextOutcomes(t.calls[1]) :
          AnalyzeRoomDesignSettles(t, outcome)
    \/ \E t \in tasks : \E i \in DOMAIN t.promises :
          \E outcome \in ImageOutcomes(VariationRequest(t.calls[Len(t.calls)], i)) :
             VariationSettles(t, i, outcome)

FineSpec == Init /\ [][FineNext]_vars

(***************************************************************************)
(* The adapter functions called on their own, with any arguments and any   *)
(* response: one call of one exported function of geminiService.ts, from   *)
(* its entry to its result.  The requests of generateDesignVisualizations  *)
(* settle one by one, in any order.                                        *)
(***************************************************************************)
MaxCount == 5       \* the largest `count` generateDesignVisualizations is called with
MaxParts == 3       \* the most parts in a response to cleanRoomImage

\* response.candidates is absent or empty
NoCandidates == [kind |-> "response", candidates |-> FALSE, parts |-> <<>>]

\* The parts of a response: text parts and image parts in every arrangement, the
\* image of part k named by the request and k.
PartLists(request) ==
    { [k \in DOMAIN shape |->
          IF shape[k] THEN ImagePart(Generated(request, k)) ELSE TextPart] :
        shape \in UNION { [1..n -> BOOLEAN] : n \in 0..MaxParts } }

\* Every way the generateContent call of cleanRoomImage ends.
ImageOutcomesWide(request) ==
    {RemoteError, NoCandidates} \cup { Response(parts) : parts \in PartLists(request) }

\* Advice arrays of 0 to 4 items, each item with its three fields filled or empty.
AdviceArraysWide(request) ==
    { [i \in DOMAIN fills |-> AdviceItem(request, i, fills[i])] :
        fills \in UNION { [1..n -> {"text", ""}] : n \in 0..AdviceRequested } }

\* Every way the generateContent call of analyzeRoomDesign ends.
TextOutcomesWide(request) ==
    {RemoteError}
    \cup { [kind |-> "response", text |-> t] :
             t \in {TextAbsent, TextEmpty, TextMalformed, TextNull, TextObject(FALSE, <<>>)}
                   \cup { TextObject(TRUE, a) : a \in AdviceArraysWide(request) } }

\* The calls made: each function with every image and category, and
\* generateDesignVisualizations with every count from 0 to MaxCount.
DirectCalls ==
    { Call(0, "cleanRoomImage", FileDataUrl(f), "", 0) : f \in Files }
    \cup { Call(0, "analyzeRoomDesign", FileDataUrl(f), c, 0) :
             f \in Files, c \in DesignCategory }
    \cup { Call(0, "generateDesignVisualizations", FileDataUrl(f), c, n) :
             f \in Files, c \in DesignCategory, n \in 0..MaxCount }

NotCalled(call) == [kind |-> "not called", call |-> call]

\* A call under way or finished: the generateContent requests it sent, what each was
\* answered (Pending: not yet), and what the function returned or threw (Pending: not yet).
Invocation(call, requests, outcomes, result) ==
    [kind |-> "invocation", call |-> call, requests |-> requests,
     outcomes |-> outcomes, result |-> result]

\* geminiService.ts:37, 101, 188-205  the generateContent requests a call sends
Requests(call) ==
    IF call.op = "generateDesignVisualizations"
      THEN [i \in DOMAIN VariationPromises(call.category, call.count) |->
               VariationRequest(call, i)]
      ELSE <<call>>

\* The answers a request can get.
OutcomesOf(call, request) ==
    CASE call.op = "cleanRoomImage" -> ImageOutcomesWide(request)
      [] call.op = "analyzeRoomDesign" -> TextOutcomesWide(request)
      [] call.op = "generateDesignVisualizations" -> ImageOutcomes(request)

\* geminiService.ts:188-217  the promises of the variations, given what was answered so far
PromisesOf(outcomes) ==
    [i \in DOMAIN outcomes |->
        IF outcomes[i] = Pending THEN Pending ELSE VariationResult(outcomes[i])]

\* geminiService.ts:54-64, 131-136, 219-220  the function's result once no request is pending
Completed(call, outcomes) ==
    CASE call.op = "cleanRoomImage" -> CleanRoomImage(outcomes[1])
      [] call.op = "analyzeRoomDesign" -> AnalyzeRoomDesign(outcomes[1])
      [] call.op = "generateDesignVisualizations" ->
           Return(FilterNonNull(PromisesOf(outcomes)))

\* geminiService.ts:33, 72, 145 and on to the first await: getClient throws, or the
\* requests are sent
Entered(key, call) ==
    IF GetClientThrows(key) THEN Invocation(call, <<>>, <<>>, Throw)
    ELSE LET requests == Requests(call)
             outcomes == [i \in DOMAIN requests |-> Pending]
         IN  Invocation(call, requests, outcomes,
                        IF AllSettled(outcomes)
                          THEN Completed(call, outcomes) ELSE Pending)

ServiceInit ==
    /\ originalImage = NULL
    /\ cleanImage = NULL
    /\ isCleanMode = FALSE
    /\ loadingState = "idle"
    /\ selectedCategory = LIGHTING
    /\ advice = <<>>
    /\ visualizations = <<>>
    /\ error = NoError
    /\ apiKey \in BOOLEAN
    /\ direct \in { NotCalled(call) : call \in DirectCalls }
    /\ readers = {}
    /\ tasks = {}
    /\ nextRun = 0
    /\ lastHandler = "none"

\* geminiService.ts:32-52  cleanRoomImage(imageBase64) is called
DirectCleanRoomImage ==
    /\ direct.kind = "not called"
    /\ direct.call.op = "cleanRoomImage"
    /\ direct' = Entered(apiKey, direct.call)
    /\ UNCHANGED <<appState, apiKey, readers, tasks, nextRun, lastHandler>>

\* geminiService.ts:68-129  analyzeRoomDesign(imageBase64, category) is called
DirectAnalyzeRoomDesign ==
    /\ direct.kind = "not called"
    /\ direct.call.op = "analyzeRoomDesign"
    /\ direct' = Entered(apiKey, direct.call)
    /\ UNCHANGED <<appState, apiKey, readers, tasks, nextRun, lastHandler>>

\* geminiService.ts:140-219  generateDesignVisualizations(imageBase64, category, count) is called
DirectGenerateDesignVisualizations ==
    /\ direct.kind = "not called"
    /\ direct.call.op = "generateDesignVisualizations"
    /\ direct' = Entered(apiKey, direct.call)
    /\ UNCHANGED <<appState, apiKey, readers, tasks, nextRun, lastHandler>>

\* geminiService.ts:37-64, 101-136, 196-220  request i of the call settles with
\* `outcome`; when no request is pending any more, the function returns or throws
GenerateContentSettles(i, outcome) ==
    /\ direct.kind = "invocation"
    /\ i \in DOMAIN direct.outcomes
    /\ direct.outcomes[i] = Pending
    /\ outcome \in OutcomesOf(direct.call, direct.requests[i])
    /\ LET outcomes == [direct.outcomes EXCEPT ![i] = outcome]
       IN  direct' = [direct EXCEPT
                        !.outcomes = outcomes,
                        !.result = IF AllSettled(outcomes)
                                     THEN Completed(direct.call, outcomes) ELSE Pending]
    /\ UNCHANGED <<appState, apiKey, readers, tasks, nextRun, lastHandler>>

ServiceNext ==
    \/ DirectCleanRoomImage
    \/ DirectAnalyzeRoomDesign
    \/ DirectGenerateDesignVisualizations
    \/ /\ direct.kind = "invocation"
       /\ \E i \in DOMAIN direct.outcomes :
             \E outcome \in OutcomesOf(direct.call, direct.requests[i]) :
                GenerateContentSettles(i, outcome)

ServiceSpec == ServiceInit /\ [][ServiceNext]_vars

(***************************************************************************)
(* Properties.                                                             *)
(***************************************************************************)
GenerateRuns == { t \in tasks : t.handler = "handleAnalysis" }
DeclutterCalls == { t \in tasks : t.await = "cleanRoomImage" }

\* C1: at most one asynchronous phase is in flight: a Declutter call is never in
\* flight together with a Generate run, and two Generate runs are never in flight
\* together.
C1_OnePhaseInFlight ==
    /\ ~(DeclutterCalls # {} /\ GenerateRuns # {})
    /\ Cardinality(GenerateRuns) <= 1

\* C2: while a Generate run is in flight the workflow state is Analyzing until its
\* Analyze call has succeeded and Visualizing from then on, and holds no other value.
C2_GenerateStateTrace ==
    \A t \in GenerateRuns :
        loadingState = IF t.await = "analyzeRoomDesign" THEN "analyzing" ELSE "visualizing"

\* C3: handleAnalysis invoked while no image is stored changes neither the workflow
\* state nor advice, visualizations or error, and issues no remote call.
C3_GenerateWithoutImageIsNoOp ==
    [][(originalImage = NULL /\ lastHandler' = "handleAnalysis")
         => /\ UNCHANGED <<loadingState, advice, visualizations, error>>
            /\ tasks' = tasks
            /\ nextRun' = nextRun]_vars

C3_Witness == originalImage = NULL /\ lastHandler = "handleAnalysis" /\ apiKey

\* C4: the step in which the reader of file f loads leaves the original image equal
\* to f's data URL, no cleaned image, clean-mode off, advice and visualizations
\* empty and no error, in whatever state it happens, and issues no remote call.
C4_UploadReplacesEverything ==
    [][\A f \in Files :
         (f \in readers /\ f \notin readers')
           => /\ originalImage' = FileDataUrl(f)
              /\ cleanImage' = NULL
              /\ isCleanMode' = FALSE
              /\ advice' = <<>>
              /\ visualizations' = <<>>
              /\ error' = NoError
              /\ tasks' = tasks
              /\ nextRun' = nextRun]_vars

\* An upload that has just replaced the image a remote call in flight was issued for.
C4_Witness ==
    /\ lastHandler = "onload"
    /\ originalImage = FileDataUrl("B")
    /\ \E t \in tasks : t.calls[1].image = FileDataUrl("A")

\* C5: after an Upload the workflow state is Idle, whatever phase was in flight.
C5_UploadResetsToIdle == lastHandler = "onload" => loadingState = "idle"

\* C6: the step in which the Declutter call of an EnableCleanMode succeeds leaves
\* clean-mode on, the cached cleaned image equal to the image that call returned (an
\* image generated for that call's request), the active image equal to the cleaned
\* image, and the workflow state Idle.
C6_CleanSuccess ==
    [][\A t \in tasks : \A outcome \in ImageOutcomes(t.calls[1]) :
         (CleanRoomImageSettles(t, outcome) /\ CleanRoomImage(outcome).ok)
           => /\ isCleanMode'
              /\ cleanImage' = CleanRoomImage(outcome).value
              /\ cleanImage'.kind = "png"
              /\ cleanImage'.data.for = t.calls[1]
              /\ ActiveImage' = cleanImage'
              /\ loadingState' = "idle"]_vars

C6_Witness ==
    /\ cleanImage # NULL
    /\ cleanImage.data.for.image = originalImage
    /\ isCleanMode
    /\ ActiveImage = cleanImage
    /\ loadingState = "idle"
    /\ lastHandler = "none"

\* C7: DisableCleanMode makes the active image the original and changes nothing else
\* and issues no call; EnableCleanMode with a cached cleaned image makes it the active
\* image in the same step, with no call and no change of the workflow state; hence a
\* cached cleaned image is never replaced by a second successful Declutter call (only
\* an Upload removes it).
C7_CleanModeSwitchAndOneDeclutter ==
    [][/\ (originalImage # NULL /\ isCleanMode /\ lastHandler' = "handleCleanCheck")
            => /\ ActiveImage' = originalImage
               /\ UNCHANGED <<originalImage, cleanImage, loadingState, advice,
                              visualizations, error, tasks, nextRun>>
       /\ (originalImage # NULL /\ ~isCleanMode /\ cleanImage # NULL
             /\ lastHandler' = "handleCleanCheck")
            => /\ ActiveImage' = cleanImage
               /\ UNCHANGED <<originalImage, cleanImage, loadingState, advice,
                              visualizations, error, tasks, nextRun>>
       /\ (cleanImage # NULL /\ cleanImage' # NULL) => cleanImage' = cleanImage]_vars

\* C8: the Analyze call of a Generate run gets the cleaned image if clean-mode is on and
\* a cleaned image is cached when Generate is triggered, otherwise the original, and
\* the category selected then; the Visualize call of the run gets the same image and
\* category, with count 4, whatever the user toggles or selects meanwhile.
C8_RunArguments ==
    [][/\ \A t \in tasks' :
            (t.handler = "handleAnalysis" /\ t.run > nextRun)
              => /\ Len(t.calls) = 1
                 /\ t.calls[1].op = "analyzeRoomDesign"
                 /\ t.calls[1].image =
                      IF isCleanMode /\ cleanImage # NULL THEN cleanImage ELSE originalImage
                 /\ t.calls[1].category = selectedCategory
       /\ \A t \in tasks' :
            (t.handler = "handleAnalysis" /\ t.await = "generateDesignVisualizations")
              => /\ Len(t.calls) = 2
                 /\ t.calls[1].op = "analyzeRoomDesign"
                 /\ t.calls[2].op = "generateDesignVisualizations"
                 /\ t.calls[2].image = t.calls[1].image
                 /\ t.calls[2].category = t.calls[1].category
                 /\ t.calls[2].count = 4
                 /\ \E u \in tasks : u.run = t.run /\ u.calls[1] = t.calls[1]]_vars

\* A run in its Visualizing phase on the original image, after the user has turned
\* clean-mode on and selected another category.
C8_Witness ==
    \E t \in tasks :
        /\ t.await = "generateDesignVisualizations"
        /\ t.calls[2].image = originalImage
        /\ isCleanMode /\ cleanImage # NULL
        /\ t.calls[2].category # selectedCategory

\* C9: whenever advice and visualizations are both non-empty, both come from the same
\* Generate invocation (hence the same image and category).
C9_ResultsOfOneInvocation ==
    (advice # <<>> /\ visualizations # <<>>)
      => \A i \in DOMAIN advice : \A j \in DOMAIN visualizations :
            /\ advice[i].for.run = visualizations[j].data.for.call.run
            /\ advice[i].for.image = visualizations[j].data.for.call.image
            /\ advice[i].for.category = visualizations[j].data.for.call.category

\* C10: the step in which the Analyze call of a Generate run fails ends the run
\* without a Visualize call, sets the generic error, returns the workflow state to
\* Idle, and leaves the advice and visualization lists both empty.
C10_AnalyzeFailure ==
    [][\A t \in tasks : \A outcome \in TextOutcomes(t.calls[1]) :
         (AnalyzeRoomDesignSettles(t, outcome) /\ ~AnalyzeRoomDesign(outcome).ok)
           => /\ \A u \in tasks' : u.run # t.run
              /\ error' = AnalysisError
              /\ loadingState' = "idle"
              /\ advice' = <<>>
              /\ visualizations' = <<>>]_vars

\* C11: the step in which the Declutter call of an EnableCleanMode fails sets the error
\* message, finds and leaves clean-mode off, leaves no cleaned image cached, leaves the
\* original image, advice and visualizations unchanged, and returns the workflow state
\* to Idle.
C11_CleanFailure ==
    [][\A t \in tasks : \A outcome \in ImageOutcomes(t.calls[1]) :
         (CleanRoomImageSettles(t, outcome) /\ ~CleanRoomImage(outcome).ok)
           => /\ error' = CleanError
              /\ ~isCleanMode /\ ~isCleanMode'
              /\ cleanImage' = NULL
              /\ UNCHANGED <<originalImage, advice, visualizations>>
              /\ loadingState' = "idle"]_vars

\* The positions in the calls of task t that hold a call of adapter function op.
CallsOf(t, op) == { i \in DOMAIN t.calls : t.calls[i].op = op }

\* C12: no retries.  A handler invocation issues its calls once: an EnableCleanMode
\* one Declutter call, a Generate one Analyze call and then at most one Visualize
\* batch.  A call is issued only by the handler a user action runs (its first call) or
\* by a Generate run whose Analyze call has just succeeded (its Visualize batch), and
\* the step that ends an invocation, by a failed call or by its last result, issues
\* no call: after a failure nothing is in flight for it and nothing starts.
C12_NoRetries ==
    [][/\ \A t \in tasks' :
            /\ \A i \in DOMAIN t.calls : t.calls[i].run = t.run
            /\ \A u \in tasks' : u.run = t.run => u = t
            /\ t.handler = "handleCleanCheck"
                 => Len(t.calls) = 1 /\ CallsOf(t, "cleanRoomImage") = {1}
            /\ t.handler = "handleAnalysis"
                 => /\ Len(t.calls) <= 2
                    /\ CallsOf(t, "analyzeRoomDesign") = {1}
                    /\ CallsOf(t, "generateDesignVisualizations") = DOMAIN t.calls \ {1}
       /\ \A t \in tasks' : \A i \in DOMAIN t.calls :
            (~ \E u \in tasks : u.run = t.run /\ i \in DOMAIN u.calls)
              => \/ /\ i = 1
                    /\ t.run = nextRun + 1
                    /\ nextRun' = nextRun + 1
                    /\ lastHandler' = t.handler
                 \/ /\ i = 2
                    /\ lastHandler' = "none"
                    /\ \E u \in tasks : \E outcome \in TextOutcomes(u.calls[1]) :
                          /\ u.run = t.run
                          /\ u.await = "analyzeRoomDesign"
                          /\ AnalyzeRoomDesign(outcome).ok
                          /\ advice' = AnalyzeRoomDesign(outcome).value
       /\ \A t \in tasks :
            (\A u \in tasks' : u.run # t.run) => tasks' = tasks \ {t} /\ nextRun' = nextRun]_vars

\* The Analyze call of the only Generate so far has failed and nothing is in flight.
C12_Witness ==
    /\ apiKey
    /\ error = AnalysisError
    /\ nextRun = 1
    /\ tasks = {}
    /\ loadingState = "idle"
    /\ lastHandler = "none"

\* The requests of a batch that were answered with a response holding an image part.
Succeeded(outcomes) ==
    { i \in DOMAIN outcomes :
        /\ outcomes[i] # Pending
        /\ outcomes[i] # RemoteError
        /\ \E k \in DOMAIN outcomes[i].parts : outcomes[i].parts[k].inlineData # NULL }

\* The j-th smallest element of a set of numbers.
NthOf(S, j) == CHOOSE i \in S : Cardinality({ k \in S : k < i }) = j - 1

VisualizeReturned ==
    /\ direct.kind = "invocation"
    /\ direct.call.op = "generateDesignVisualizations"
    /\ direct.result # Pending

\* C13: whichever requests of a Visualize batch fail or are answered without an image
\* part, and in whatever order the requests settle, Visualize does not fail and
\* returns one image per request that succeeded: the images answered to those
\* requests, in the order of the variation list.
C13_VisualizeReturnsSuccessesInOrder ==
    (VisualizeReturned /\ apiKey)
      => LET value == direct.result.value
             succeeded == Succeeded(direct.outcomes)
         IN  /\ direct.result.ok
             /\ Len(value) = Cardinality(succeeded)
             /\ \A j \in DOMAIN value :
                   /\ value[j].kind = "png"
                   /\ value[j].data.for = direct.requests[NthOf(succeeded, j)]
                   /\ \E k \in DOMAIN direct.outcomes[NthOf(succeeded, j)].parts :
                         direct.outcomes[NthOf(succeeded, j)].parts[k]
                           = ImagePart(value[j].data)

\* Visualize called with count 4 has returned 3 images: request 2 of the 4 failed, and
\* the first image returned is that of request 1, the second that of request 3.
C13_Witness ==
    /\ VisualizeReturned
    /\ direct.call.count = 4
    /\ Len(direct.requests) = 4
    /\ direct.outcomes[2] = RemoteError
    /\ Succeeded(direct.outcomes) = {1, 3, 4}
    /\ Len(direct.result.value) = 3
    /\ direct.result.value[2].data.for = direct.requests[3]

\* C14: the settling of a variation call of a Generate run in its Visualizing phase,
\* in whatever way (an error, a response without image, a response with an image),
\* sets no error and keeps the advice.  While another call of the batch is pending
\* the run goes on, in the same workflow state.  When it is the last call of the
\* batch the run ends with the workflow state Idle and the visualizations are the
\* images of the calls that succeeded, in the order of the variation list (none when
\* all failed).
C14_VariationFailuresDoNotInterrupt ==
    [][\A t \in tasks :
         t.await = "generateDesignVisualizations"
           => \A i \in DOMAIN t.promises :
                 \A outcome \in ImageOutcomes(VariationRequest(t.calls[2], i)) :
                    VariationSettles(t, i, outcome)
                      => LET others == DOMAIN t.promises \ {i}
                             succeeded ==
                               { k \in others : t.promises[k] \notin {Pending, NULL} }
                               \cup { k \in {i} : Succeeded(<<outcome>>) = {1} }
                         IN  /\ error' = error
                             /\ advice' = advice
                             /\ IF \A k \in others : t.promises[k] # Pending
                                  THEN /\ \A u \in tasks' : u.run # t.run
                                       /\ loadingState' = "idle"
                                       /\ Len(visualizations') = Cardinality(succeeded)
                                       /\ \A j \in DOMAIN visualizations' :
                                             visualizations'[j].data.for =
                                               VariationRequest(t.calls[2],
                                                                NthOf(succeeded, j))
                                  ELSE /\ loadingState' = loadingState
                                       /\ visualizations' = visualizations
                                       /\ \E u \in tasks' :
                                             /\ u.run = t.run
                                             /\ u.await = t.await
                                             /\ \A k \in others :
                                                   u.promises[k] = t.promises[k]
                                             /\ IF i \in succeeded
                                                  THEN u.promises[i].data.for =
                                                         VariationRequest(t.calls[2], i)
                                                  ELSE u.promises[i] = NULL]_vars

\* A run has ended with two of its four variation calls failed: the advice of its
\* Analyze call and the two images are shown, with no error, and the workflow state
\* is Idle.
C14_Witness ==
    /\ tasks = {}
    /\ nextRun = 1
    /\ Len(advice) = AdviceRequested
    /\ Len(visualizations) = 2
    /\ error = NoError
    /\ loadingState = "idle"
    /\ lastHandler = "none"

AnalyzeReturned ==
    /\ direct.kind = "invocation"
    /\ direct.call.op = "analyzeRoomDesign"
    /\ direct.requests # <<>>
    /\ direct.result # Pending

\* C15: when the text of the response to Analyze is malformed JSON, or a JSON object
\* without an advice field, or empty or absent, Analyze returns the empty advice list
\* and does not throw.
C15_AnalyzeToleratesBadText ==
    (/\ AnalyzeReturned
     /\ direct.outcomes[1] # RemoteError
     /\ \/ direct.outcomes[1].text.json \in {"malformed", "empty", "absent"}
        \/ /\ direct.outcomes[1].text.json = "object"
           /\ ~direct.outcomes[1].text.hasAdvice)
      => /\ direct.result.ok
         /\ direct.result.value = <<>>

VisualizeEntered ==
    /\ direct.kind = "invocation"
    /\ direct.call.op = "generateDesignVisualizations"
    /\ apiKey

\* C16: generateDesignVisualizations(image, category, count) sends exactly count
\* requests, for every count >= 0, each with the image and with a variation of the
\* category's table, no two with the same variation.
C16_VisualizeIssuesCountCalls ==
    VisualizeEntered
      => /\ Len(direct.requests) = direct.call.count
         /\ \A i \in DOMAIN direct.requests :
               /\ direct.requests[i].call.image = direct.call.image
               /\ \E k \in DOMAIN Variations(direct.call.category) :
                     direct.requests[i].variation = Variations(direct.call.category)[k]
               /\ \A j \in DOMAIN direct.requests :
                     direct.requests[j].variation = direct.requests[i].variation => j = i

AdapterFunctions == {"cleanRoomImage", "analyzeRoomDesign", "generateDesignVisualizations"}

\* C17: with the API key missing, each adapter function, called with the image and
\* category at hand, throws without sending a request; and in the workflow no remote
\* call is ever in flight, the workflow state is Idle after every step, nothing is
\* cached or shown, and an EnableCleanMode or a Generate ends with its error message set.
C17_MissingKey ==
    ~apiKey
      => /\ \A op \in AdapterFunctions :
               LET entered == Entered(apiKey, Call(0, op, ActiveImage, selectedCategory,
                                                   VisualizationCount))
               IN  entered.result = Throw /\ entered.requests = <<>>
         /\ tasks = {}
         /\ nextRun = 0
         /\ loadingState = "idle"
         /\ cleanImage = NULL /\ ~isCleanMode
         /\ advice = <<>> /\ visualizations = <<>>
         /\ (lastHandler = "handleCleanCheck" /\ originalImage # NULL) => error = CleanError
         /\ (lastHandler = "handleAnalysis" /\ originalImage # NULL) => error = AnalysisError

\* Generate has just been clicked with the key missing.
C17_Witness ==
    /\ ~apiKey
    /\ originalImage # NULL
    /\ lastHandler = "handleAnalysis"
    /\ error = AnalysisError
    /\ loadingState = "idle"
    /\ tasks = {}

DeclutterReturned ==
    /\ direct.kind = "invocation"
    /\ direct.call.op = "cleanRoomImage"
    /\ direct.requests # <<>>
    /\ direct.result # Pending

\* The positions of the image parts of a response (none when the call failed).
ImagePartsOf(outcome) ==
    IF outcome = RemoteError THEN {}
    ELSE { k \in DOMAIN outcome.parts : outcome.parts[k].inlineData # NULL }

\* C18: Declutter returns the data URL of the first image part of the response when
\* the response has one, and throws when the response has no image part or the remote
\* call fails; what it returns is always an image of the response to its own request.
C18_DeclutterFirstImageOrError ==
    DeclutterReturned
      => LET outcome == direct.outcomes[1]
             images == ImagePartsOf(outcome)
         IN  IF images = {}
               THEN direct.result = Throw
               ELSE /\ direct.result.ok
                    /\ direct.result.value.kind = "png"
                    /\ ImagePart(direct.result.value.data)
                         = outcome.parts[NthOf(images, 1)]
                    /\ direct.result.value.data.for = direct.requests[1]

\* Declutter has returned the second part of a response whose first part is text and
\* whose second and third parts are images.
C18_Witness ==
    /\ DeclutterReturned
    /\ ImagePartsOf(direct.outcomes[1]) = {2, 3}
    /\ direct.result.ok
    /\ direct.result.value.data.k = 2

\* C19: a step that changes the selected category changes nothing else: it issues no
\* remote call and leaves the workflow state, the images, clean-mode, advice,
\* visualizations, the error and every handler invocation in flight as they are; and
\* a Generate run in flight keeps, in every step, the category it was started with,
\* which is the category of each call it issues.
C19_SelectCategoryOnly ==
    [][/\ selectedCategory' # selectedCategory
            => UNCHANGED <<originalImage, cleanImage, isCleanMode, loadingState, advice,
                           visualizations, error, readers, tasks, nextRun>>
       /\ \A t \in tasks' :
            t.handler = "handleAnalysis"
              => /\ \A i \in DOMAIN t.calls : t.calls[i].category = t.category
                 /\ \A u \in tasks : u.run = t.run => u.category = t.category]_vars

\* A Generate run is in flight and the user has selected another category since.
C19_Witness ==
    \E t \in tasks :
        /\ t.handler = "handleAnalysis"
        /\ t.await = "analyzeRoomDesign"
        /\ t.category = LIGHTING
        /\ selectedCategory = DECOR
        /\ loadingState = "analyzing"

\* C20: when the response to Analyze is valid JSON whose advice array has exactly 4
\* items, Analyze returns a list of 4 items, those of the response in the response's
\* order, and every item has a non-empty title, description and principleSource.
C20_AnalyzeFourItems ==
    (/\ AnalyzeReturned
     /\ direct.outcomes[1] # RemoteError
     /\ direct.outcomes[1].text.json = "object"
     /\ direct.outcomes[1].text.hasAdvice
     /\ Len(direct.outcomes[1].text.advice) = 4)
      => /\ direct.result.ok
         /\ Len(direct.result.value) = 4
         /\ direct.result.value = direct.outcomes[1].text.advice
         /\ \A i \in DOMAIN direct.result.value :
               /\ direct.result.value[i].title # ""
               /\ direct.result.value[i].description # ""
               /\ direct.result.value[i].principleSource # ""

\* The calls of the batch of task t that have not settled.
PendingCalls(t) == { k \in DOMAIN t.promises : t.promises[k] = Pending }

\* C21: join-all.  While a call of a Visualize batch is in flight the run stays
\* suspended in generateDesignVisualizations, no visualization of that batch is
\* stored, and what the other calls of the batch were answered is kept; the run gets
\* the result, stores visualizations of the batch and sets the workflow state to Idle
\* only in the step in which the last pending call of the batch settles.
C21_JoinAll ==
    [][/\ \A t \in tasks' :
            t.await = "generateDesignVisualizations"
              => /\ PendingCalls(t) # {}
                 /\ \A j \in DOMAIN visualizations' :
                       visualizations'[j].data.for.call # t.calls[2]
       /\ \A t \in tasks :
            t.await = "generateDesignVisualizations"
              => IF \E u \in tasks' : u.run = t.run
                   THEN \E u \in tasks' :
                          /\ u.run = t.run
                          /\ u.await = t.await
                          /\ PendingCalls(u) \subseteq PendingCalls(t)
                          /\ Cardinality(PendingCalls(t) \ PendingCalls(u)) <= 1
                          /\ \A k \in DOMAIN t.promises \ PendingCalls(t) :
                                u.promises[k] = t.promises[k]
                   ELSE /\ Cardinality(PendingCalls(t)) = 1
                        /\ loadingState' = "idle"
                        /\ \A j \in DOMAIN visualizations' :
                              visualizations'[j].data.for.call = t.calls[2]
                        /\ \A k \in DOMAIN t.promises \ PendingCalls(t) :
                              t.promises[k] # NULL
                                => \E j \in DOMAIN visualizations' :
                                      visualizations'[j] = t.promises[k]]_vars

\* Three calls of a batch have settled, two of them with an image, and the fourth is
\* in flight: nothing is shown yet and the workflow state is Visualizing.
C21_Witness ==
    \E t \in tasks :
        /\ t.await = "generateDesignVisualizations"
        /\ Cardinality(PendingCalls(t)) = 1
        /\ Cardinality({ k \in DOMAIN t.promises : t.promises[k] \notin {Pending, NULL} }) = 2
        /\ visualizations = <<>>
        /\ loadingState = "visualizing"

\* C22: the workflow state is Idle exactly when no remote call is in flight.
C22_IdleIffNothingInFlight == (loadingState = "idle") <=> (tasks = {})

\* The image was produced from the stored original image: it is the original, or a
\* cleaned image answered to a Declutter call made on it.
FromOriginal(image) ==
    \/ image = originalImage
    \/ image.kind = "png" /\ image.data.for.op = "cleanRoomImage"
                          /\ image.data.for.image = originalImage

\* C23: a cached cleaned image is the result of a Declutter call made on the stored
\* original image.
C23_CleanImageOfCurrentOriginal ==
    cleanImage # NULL
      => /\ cleanImage.data.for.op = "cleanRoomImage"
         /\ cleanImage.data.for.image = originalImage

\* C24: the advice and the visualizations shown were produced from the stored original
\* image or from its cleaned version.
C24_ResultsOfCurrentOriginal ==
    /\ \A i \in DOMAIN advice : FromOriginal(advice[i].for.image)
    /\ \A j \in DOMAIN visualizations : FromOriginal(visualizations[j].data.for.call.image)

\* C25: whenever clean-mode is on, a cleaned image is cached.
C25_CleanModeHasCleanImage == isCleanMode => cleanImage # NULL

\* Clean-mode is on with a Generate run in flight and a second file still being read:
\* a state reached through an upload, clean-checkbox toggles, a Generate and the
\* completion of a Declutter call.
C25_Witness ==
    /\ isCleanMode
    /\ cleanImage # NULL
    /\ readers # {}
    /\ \E t \in tasks : t.handler = "handleAnalysis" /\ t.image = originalImage

====
